---- MODULE Spec2Model ----
(***************************************************************************)
(* Content Intake Service: the session lifecycle kept in PostgreSQL by     *)
(* SessionService (services/content_intake/services/session_service.py)    *)
(* and exposed by the REST handlers of                                      *)
(* services/content_intake/api/sessions.py.                                 *)
(*                                                                         *)
(* Every request handler owns one SQLAlchemy session, i.e. one database    *)
(* transaction.  The code takes no row lock (no SELECT ... FOR UPDATE) and  *)
(* no in-process mutex, so two handlers served by different workers of the  *)
(* service interleave at their database round trips: the first SELECT of a  *)
(* handler reads committed rows, its writes become visible at COMMIT.  A    *)
(* handler that does not write is a single step.                            *)
(*                                                                         *)
(* Gestalt Design Engine: ProposalService                                   *)
(* (services/gestalt_engine/services/proposal_service.py) with the          *)
(* rule-based DesignEngine and GestaltPrinciples                            *)
(* (services/gestalt_engine/engines/), whose functions are also applied one *)
(* by one to every input of a bounded set.                                  *)
(*                                                                         *)
(* Document Formatter: RenderService with WordRenderer and                  *)
(* PowerPointRenderer (services/document_formatter/), applied to the layout *)
(* specifications the engine produces.                                      *)
(*                                                                         *)
(* User Agent: WorkflowOrchestrator.run_workflow                            *)
(* (services/user_agent/workflow/orchestrator.py), one step per HTTP call,  *)
(* with the answers of the other services chosen nondeterministically.      *)
(***************************************************************************)
EXTENDS Integers, Sequences, FiniteSets, TLC

\* ----------------------------------------------------------------- bounds
NumWorkers == 2
MaxSessions == 2
NumKeys == 1
TickHours == 24
MaxTime == 24

\* ------------------------------------------------------ program constants
RetentionHours == 24
MaxContentBlocks == 1000
MaxImages == 200
WordsPerMinute == 200
NULL == 0

Workers == 1..NumWorkers
SessionIds == 1..MaxSessions
Keys == 1..NumKeys
NoKey == NULL
NoError == "NULL"
NoRole == "NULL"

SessionStatus ==
    {"draft", "normalizing", "ready", "layout_queued", "layout_processing",
     "layout_complete", "failed"}

\* ------------------------------------------------------- content payloads
EmptyMetrics == [word_count |-> -1, estimated_reading_seconds |-> -1]

ContentBlock(id, type, level, sequence, text) ==
    [block_id |-> id, type |-> type, level |-> level, sequence |-> sequence,
     text |-> text, detected_role |-> NoRole, metrics |-> EmptyMetrics]

\* The optional fields of a block as a client sends them.
WithMetrics(block, metrics) == [block EXCEPT !.metrics = metrics]

WithRole(block, role) == [block EXCEPT !.detected_role = role]

\* A request body: content blocks (block ids given by the client, or left to
\* the default factory when block_id is NULL) and images.
CreateSessionRequests ==
    << [content_blocks |-> << ContentBlock(101, "heading", 1, 0, <<"w", " ", "w">>),
                              ContentBlock(102, "paragraph", 0, 1, <<"w">>) >>,
        images |-> {201}],
       [content_blocks |->
            << ContentBlock(NULL, "callout", 0, 0, <<" ", "w">>),
               WithMetrics(ContentBlock(NULL, "paragraph", 0, 1, <<"w", " ", "w">>),
                           [word_count |-> 7, estimated_reading_seconds |-> -1]),
               WithRole(ContentBlock(NULL, "heading", 1, 2, <<"w">>), "summary") >>,
        images |-> {}] >>

Payloads == DOMAIN CreateSessionRequests

\* len(block.text.split()): the number of maximal runs of non-blank characters.
WordCount(text) ==
    Cardinality({i \in 1..Len(text) :
                    text[i] # " " /\ (i = 1 \/ text[i - 1] = " ")})

\* A reading time rounded up to the next second.
EstimatedReadingSecondsCeiling(word_count) ==
    (word_count * 60 + WordsPerMinute - 1) \div WordsPerMinute

\* int((word_count / 200) * 60)
EstimatedReadingSeconds(word_count) == (word_count * 60) \div WordsPerMinute

\* Lines 215-221: the two metrics the loop writes into block.metrics.
ComputedMetrics(block) ==
    [word_count |-> WordCount(block.text),
     estimated_reading_seconds |-> EstimatedReadingSeconds(WordCount(block.text))]

\* A detection that replaces the role a block arrived with.
DetectRoleOverwrites(block) ==
    IF block.type = "heading" /\ block.sequence = 0 THEN "introduction"
    ELSE IF block.type = "callout" THEN "action"
    ELSE "supporting"

DetectRole(block) ==
    IF block.detected_role # NoRole THEN block.detected_role
    ELSE IF block.type = "heading" /\ block.sequence = 0 THEN "introduction"
    ELSE IF block.type = "callout" THEN "action"
    ELSE "supporting"

\* One iteration of the loop of _normalize_content.  The metrics column is a
\* plain JSON column: the dict assigned when the block had none is written
\* back, a dict the client supplied is only mutated in place and the stored
\* value stays as inserted.
NormalizeBlock(block) ==
    [block EXCEPT
        !.metrics = IF block.metrics = EmptyMetrics
                    THEN ComputedMetrics(block)
                    ELSE block.metrics,
        !.detected_role = DetectRole(block)]

NormalizeContent(blocks) == [i \in 1..Len(blocks) |-> NormalizeBlock(blocks[i])]

\* block_id as stored: the client's, or a fresh one (default factory uuid4),
\* which no other session's block can share.
StoredBlocks(sid, blocks) ==
    [i \in 1..Len(blocks) |->
        [blocks[i] EXCEPT !.block_id =
            IF blocks[i].block_id = NULL THEN 1000 * sid + i ELSE blocks[i].block_id]]

BlockIds(blocks) == {blocks[i].block_id : i \in 1..Len(blocks)}

\* The proposal reference is left unset.
ProposalIdUnset(sid) == NULL

\* Line 157, f"lsp-{session_id.split('-')[1]}": the session's hex after "lsp-".
ProposalIdFor(sid) == sid

\* ------------------------------------------------------------------ state
VARIABLES
    sessions,          \* table sessions: session_id -> row
    content_blocks,    \* table content_blocks, grouped by session_id
    images,            \* table image_assets, grouped by session_id
    idempotency_keys,  \* table idempotency_keys: key -> row
    nextId,            \* the next uuid4 (never reused)
    now,               \* datetime.utcnow(), in hours
    req,               \* per worker: the handler in flight between SELECT and COMMIT
    last,              \* the HTTP response most recently returned
    createdWith        \* history: the idempotency key each committed creation carried

\* The Gestalt Design Engine service, a process of its own: ProposalService
\* keeps its state in three dicts of the process.
VARIABLES
    proposals,         \* _proposals: proposal_id -> proposal
    specifications,    \* _specifications: proposal_id -> Layout Specification Package
    proposal_keys,     \* _idempotency_keys: key -> proposal_id
    call               \* the call most recently made to the engine, with its result

\* The user agent, a client process: one WorkflowOrchestrator.
VARIABLES
    workflow           \* run_workflow: its position, its state machine, its result

vars == <<sessions, content_blocks, images, idempotency_keys, nextId, now, req, last,
          createdWith, proposals, specifications, proposal_keys, call, workflow>>
db == <<sessions, content_blocks, images, idempotency_keys>>
intake == <<db, nextId, now, req, last, createdWith>>
layout == <<proposals, specifications, proposal_keys, call>>

NoCall == [fn |-> "none"]

\* No workflow has been started.
NoWorkflow == [pc |-> "none"]

Idle ==
    [op |-> "idle", sid |-> NULL, key |-> NoKey, payload |-> 0, ts |-> 0,
     seen |-> "NULL"]

\* A response records, beside what the client receives, the status the
\* handler's SELECT saw ("missing": no row, "NULL": the handler read none).
NoResponse ==
    [op |-> "none", sid |-> NULL, key |-> NoKey, code |-> 0, seen |-> "NULL",
     status |-> "NULL", proposal_id |-> NULL, error_message |-> NoError]

SessionRow(status, proposal_id, updated_at, error_message) ==
    [status |-> status, proposal_id |-> proposal_id, updated_at |-> updated_at,
     error_message |-> error_message]

\* _model_to_response followed by the handler's SessionResponseModel(...)
ModelToResponse(op, sid, key, code, seen, row) ==
    [op |-> op, sid |-> sid, key |-> key, code |-> code, seen |-> seen,
     status |-> row.status, proposal_id |-> row.proposal_id,
     error_message |-> row.error_message]

\* HTTPException(status_code=code); also the empty 204 of a delete.
HttpError(op, sid, key, code, seen) ==
    [op |-> op, sid |-> sid, key |-> key, code |-> code, seen |-> seen,
     status |-> "NULL", proposal_id |-> NULL, error_message |-> NoError]

\* The database as the service finds it: empty, or holding one session row that
\* earlier requests and the downstream layout pipeline left behind; the status
\* column of such a row holds any value of SessionStatusEnum.
InitialRow(status) ==
    SessionRow(status,
               IF status \in {"layout_queued", "layout_processing", "layout_complete"}
               THEN ProposalIdFor(1) ELSE NULL,
               0,
               IF status = "failed" THEN "error" ELSE NoError)

InitialBlocks ==
    NormalizeContent(StoredBlocks(1, << ContentBlock(NULL, "paragraph", 0, 0, <<"w">>) >>))

Init ==
    /\ \/ /\ sessions = << >>
          /\ content_blocks = << >>
          /\ images = << >>
          /\ nextId = 1
       \/ /\ \E status \in SessionStatus : sessions = (1 :> InitialRow(status))
          /\ content_blocks = (1 :> InitialBlocks)
          /\ images = (1 :> {})
          /\ nextId = 2
    /\ idempotency_keys = << >>
    /\ now = 0
    /\ req = [w \in Workers |-> Idle]
    /\ last = NoResponse
    /\ createdWith = << >>
    /\ proposals = << >>
    /\ specifications = << >>
    /\ proposal_keys = << >>
    /\ workflow = NoWorkflow
    /\ call = NoCall

Remove(f, x) == [y \in DOMAIN f \ {x} |-> f[y]]

IsIdle(w) == req[w].op = "idle"

\* The status column as a handler's query loads it.
Seen(sid) == IF sid \in DOMAIN sessions THEN sessions[sid].status ELSE "missing"

Respond(w, response) ==
    /\ req' = [req EXCEPT ![w] = Idle]
    /\ last' = response

\* ------------------------------------------------- POST /sessions (create)
\* A replay that normalizes the stored session again.
CreateReplayRenormalizes(w, key, p) ==
    /\ IsIdle(w)
    /\ key # NoKey
    /\ key \in DOMAIN idempotency_keys
    /\ idempotency_keys[key].session_id \in DOMAIN sessions
    /\ LET sid == idempotency_keys[key].session_id
           row == [sessions[sid] EXCEPT !.status = "ready", !.updated_at = now] IN
         /\ sessions' = [sessions EXCEPT ![sid] = row]
         /\ Respond(w, ModelToResponse("create", sid, key, 201, Seen(sid), row))
    /\ UNCHANGED <<content_blocks, images, idempotency_keys, nextId, now, createdWith, layout, workflow>>

\* Lines 46-54: the key is known.  The stored session is returned as it is; a
\* key whose session row is gone makes _model_to_response(None) raise, which
\* the handler reports as 500.
CreateReplay(w, key, p) ==
    /\ IsIdle(w)
    /\ key # NoKey
    /\ key \in DOMAIN idempotency_keys
    /\ LET sid == idempotency_keys[key].session_id IN
         IF sid \in DOMAIN sessions
         THEN Respond(w, ModelToResponse("create", sid, key, 201, Seen(sid),
                                         sessions[sid]))
         ELSE Respond(w, HttpError("create", NULL, key, 500, "missing"))
    /\ UNCHANGED <<db, nextId, now, createdWith, layout, workflow>>

\* Lines 56-63: the size limits of the payload.
PayloadTooLarge(p) ==
    \/ Len(CreateSessionRequests[p].content_blocks) > MaxContentBlocks
    \/ Cardinality(CreateSessionRequests[p].images) > MaxImages

\* Lines 46-110 when the key is unknown (or none is given): the session, its
\* blocks and images are inserted and normalized inside the handler's own
\* transaction, invisible to other handlers until the commit.  MaxSessions
\* bounds the sessions ever created.
CreateBegin(w, key, p) ==
    /\ IsIdle(w)
    /\ key = NoKey \/ key \notin DOMAIN idempotency_keys
    /\ nextId <= MaxSessions
    /\ IF PayloadTooLarge(p)
       THEN /\ Respond(w, HttpError("create", NULL, key, 422, "NULL"))
            /\ UNCHANGED nextId
       ELSE /\ req' = [req EXCEPT ![w] =
                         [op |-> "create", sid |-> nextId, key |-> key,
                          payload |-> p, ts |-> now, seen |-> "NULL"]]
            /\ nextId' = nextId + 1
            /\ UNCHANGED last
    /\ UNCHANGED <<db, now, createdWith, layout, workflow>>

\* The blocks the transaction of a create holds at its commit.
PendingBlocks(r) ==
    NormalizeContent(StoredBlocks(r.sid, CreateSessionRequests[r.payload].content_blocks))

StoredBlockIds == UNION {BlockIds(content_blocks[s]) : s \in DOMAIN content_blocks}
StoredImageIds == UNION {images[s] : s \in DOMAIN images}

\* The unique indexes on idempotency_keys.idempotency_key, content_blocks.block_id
\* and image_assets.image_id.
UniqueViolation(r) ==
    \/ r.key # NoKey /\ r.key \in DOMAIN idempotency_keys
    \/ BlockIds(PendingBlocks(r)) \cap StoredBlockIds # {}
    \/ CreateSessionRequests[r.payload].images \cap StoredImageIds # {}

\* Lines 112-124: the key row is added and the transaction commits.
CreateCommit(w) ==
    /\ req[w].op = "create"
    /\ ~UniqueViolation(req[w])
    /\ LET r == req[w]
           row == SessionRow("ready", NULL, r.ts, NoError) IN
         /\ sessions' = (r.sid :> row) @@ sessions
         /\ content_blocks' = (r.sid :> PendingBlocks(r)) @@ content_blocks
         /\ images' = (r.sid :> CreateSessionRequests[r.payload].images) @@ images
         /\ idempotency_keys' =
               IF r.key = NoKey THEN idempotency_keys
               ELSE (r.key :> [session_id |-> r.sid,
                               expires_at |-> now + RetentionHours])
                    @@ idempotency_keys
         /\ createdWith' = (r.sid :> r.key) @@ createdWith
         /\ Respond(w, ModelToResponse("create", r.sid, r.key, 201, "NULL", row))
    /\ UNCHANGED <<nextId, now, layout, workflow>>

\* The commit hits a unique index: IntegrityError, the transaction is rolled
\* back and the handler answers 500.
CreateCommitFails(w) ==
    /\ req[w].op = "create"
    /\ UniqueViolation(req[w])
    /\ Respond(w, HttpError("create", NULL, req[w].key, 500, "NULL"))
    /\ UNCHANGED <<db, nextId, now, createdWith, layout, workflow>>

\* An exception that leaves behind what the loop had done when it was raised:
\* the session row in draft, the blocks before block i enriched, the rest not.
NormalizeContentRaisesAfterPartialCommit(w) ==
    /\ req[w].op = "create"
    /\ ~UniqueViolation(req[w])
    /\ LET r == req[w]
           blocks == StoredBlocks(r.sid, CreateSessionRequests[r.payload].content_blocks) IN
         \E i \in 1..Len(blocks) :
            /\ sessions' = (r.sid :> SessionRow("draft", NULL, r.ts, NoError)) @@ sessions
            /\ content_blocks' =
                  (r.sid :> [j \in 1..Len(blocks) |->
                               IF j < i THEN NormalizeBlock(blocks[j]) ELSE blocks[j]])
                  @@ content_blocks
            /\ images' = (r.sid :> CreateSessionRequests[r.payload].images) @@ images
            /\ Respond(w, HttpError("create", r.sid, r.key, 500, "draft"))
    /\ UNCHANGED <<idempotency_keys, nextId, now, createdWith, layout, workflow>>

\* Lines 203-234 raise at block i (a failing round trip of the refresh or of
\* the lazy load, an error in the loop): neither _normalize_content nor
\* create_session catches, the handler's "except Exception" answers 500 and the
\* transaction, never committed, is rolled back when the session is closed.
\* The response records the id the handler had allocated and the status the
\* uncommitted session row had, draft (line 71; line 233 was not reached).
NormalizeContentRaises(w) ==
    /\ req[w].op = "create"
    /\ ~UniqueViolation(req[w])
    /\ \E i \in 1..Len(CreateSessionRequests[req[w].payload].content_blocks) :
          Respond(w, HttpError("create", req[w].sid, req[w].key, 500, "draft"))
    /\ UNCHANGED <<db, nextId, now, createdWith, layout, workflow>>

\* --------------------------------------------- GET /sessions/{session_id}
GetSession(w, sid) ==
    /\ IsIdle(w)
    /\ IF sid \in DOMAIN sessions
       THEN Respond(w, ModelToResponse("get", sid, NoKey, 200, Seen(sid), sessions[sid]))
       ELSE Respond(w, HttpError("get", sid, NoKey, 404, "missing"))
    /\ UNCHANGED <<db, nextId, now, createdWith, layout, workflow>>

\* ------------------------------------- POST /sessions/{session_id}/submit
SubmittableOrFailed(status) == status \in {"draft", "ready", "failed"}

SubmittableOrComplete(status) == status \in {"draft", "ready", "layout_complete"}

\* Line 152: status in [DRAFT, READY]
Submittable(status) == status \in {"draft", "ready"}

\* A submit that stamps the row before it checks the status.
SubmitBeginStamps(w, sid, key) ==
    /\ IsIdle(w)
    /\ IF sid \notin DOMAIN sessions
       THEN /\ Respond(w, HttpError("submit", sid, key, 409, Seen(sid)))
            /\ UNCHANGED sessions
       ELSE /\ sessions' = [sessions EXCEPT ![sid].updated_at = now]
            /\ IF ~Submittable(sessions[sid].status)
               THEN Respond(w, HttpError("submit", sid, key, 409, Seen(sid)))
               ELSE /\ req' = [req EXCEPT ![w] =
                                 [op |-> "submit", sid |-> sid, key |-> key,
                                  payload |-> 0, ts |-> now, seen |-> Seen(sid)]]
                    /\ UNCHANGED last
    /\ UNCHANGED <<content_blocks, images, idempotency_keys, nextId, now, createdWith, layout, workflow>>

\* Lines 145-153: the query and the two checks; both ValueErrors become 409
\* in the handler.  The idempotency key is accepted and never read.
SubmitBegin(w, sid, key) ==
    /\ IsIdle(w)
    /\ IF sid \notin DOMAIN sessions \/ ~Submittable(Seen(sid))
       THEN Respond(w, HttpError("submit", sid, key, 409, Seen(sid)))
       ELSE /\ req' = [req EXCEPT ![w] =
                         [op |-> "submit", sid |-> sid, key |-> key,
                          payload |-> 0, ts |-> now, seen |-> Seen(sid)]]
            /\ UNCHANGED last
    /\ UNCHANGED <<db, nextId, now, createdWith, layout, workflow>>

\* Lines 155-163: UPDATE, COMMIT, refresh.  An UPDATE that matches no row
\* (the session was deleted meanwhile) raises StaleDataError: 500.
SubmitCommit(w) ==
    /\ req[w].op = "submit"
    /\ LET r == req[w] IN
         IF r.sid \in DOMAIN sessions
         THEN LET row == [sessions[r.sid] EXCEPT
                             !.status = "layout_queued",
                             !.proposal_id = ProposalIdFor(r.sid),
                             !.updated_at = r.ts] IN
                /\ sessions' = [sessions EXCEPT ![r.sid] = row]
                /\ Respond(w, ModelToResponse("submit", r.sid, r.key, 200, r.seen, row))
         ELSE /\ Respond(w, HttpError("submit", r.sid, r.key, 500, r.seen))
              /\ UNCHANGED sessions
    /\ UNCHANGED <<content_blocks, images, idempotency_keys, nextId, now, createdWith, layout, workflow>>

\* ------------------------------------------ DELETE /sessions/{session_id}
DeleteBlockedAlsoWhenFailed(status) == status \in {"layout_complete", "failed"}

\* Line 197: status == LAYOUT_COMPLETE
DeleteBlocked(status) == status = "layout_complete"

\* Lines 190-198 and the handler's mapping: "not found" is 404, the other
\* ValueError 409.
DeleteBegin(w, sid) ==
    /\ IsIdle(w)
    /\ IF sid \notin DOMAIN sessions
       THEN Respond(w, HttpError("delete", sid, NoKey, 404, "missing"))
       ELSE IF DeleteBlocked(sessions[sid].status)
       THEN Respond(w, HttpError("delete", sid, NoKey, 409, Seen(sid)))
       ELSE /\ req' = [req EXCEPT ![w] =
                         [op |-> "delete", sid |-> sid, key |-> NoKey,
                          payload |-> 0, ts |-> now, seen |-> Seen(sid)]]
            /\ UNCHANGED last
    /\ UNCHANGED <<db, nextId, now, createdWith, layout, workflow>>

\* Lines 200-201: the session row goes with its blocks and images (cascade
\* "all, delete-orphan"); idempotency_keys has no foreign key and is left alone.
\* A DELETE that matches no row is only a warning.
DeleteCommit(w) ==
    /\ req[w].op = "delete"
    /\ LET r == req[w] IN
         /\ sessions' = Remove(sessions, r.sid)
         /\ content_blocks' = Remove(content_blocks, r.sid)
         /\ images' = Remove(images, r.sid)
         /\ Respond(w, HttpError("delete", r.sid, NoKey, 204, r.seen))
    /\ UNCHANGED <<idempotency_keys, nextId, now, createdWith, layout, workflow>>

\* ------------------------------------------------------------------ clock
Tick ==
    /\ now + TickHours <= MaxTime
    /\ now' = now + TickHours
    /\ UNCHANGED <<db, nextId, req, last, createdWith, layout, workflow>>

\* ------------------------------------------------------- specifications
Handler(w) ==
    \/ \E key \in Keys \cup {NoKey}, p \in Payloads :
          CreateReplay(w, key, p) \/ CreateBegin(w, key, p)
    \/ CreateCommit(w)
    \/ CreateCommitFails(w)
    \/ NormalizeContentRaises(w)
    \/ \E sid \in SessionIds : GetSession(w, sid)
    \/ \E sid \in SessionIds, key \in Keys \cup {NoKey} : SubmitBegin(w, sid, key)
    \/ SubmitCommit(w)
    \/ \E sid \in SessionIds : DeleteBegin(w, sid)
    \/ DeleteCommit(w)

\* A handler past its first query runs to its response.
Finish(w) ==
    \/ CreateCommit(w) \/ CreateCommitFails(w) \/ NormalizeContentRaises(w)
    \/ SubmitCommit(w) \/ DeleteCommit(w)

\* One service process: its event loop runs a handler to its end before it
\* takes the next request (the handlers never yield).
Next == Handler(1) \/ Tick

Spec == Init /\ [][Next]_vars

FairSpec == Spec /\ WF_vars(Finish(1))

\* NumWorkers service processes on the same database.
ConcNext == (\E w \in Workers : Handler(w)) \/ Tick

ConcSpec == Init /\ [][ConcNext]_vars

\* ====================================================== Gestalt Design Engine
\* ------------------------------------------ program constants of the engine
BASE_SIZE == 11
ScaleRatioPerMille == 1333
SlideGroupSize == 5
MaxUnitElements == 50
UnitTitleChars == 50
DocumentTitleChars == 100

\* ------------------------------------------------------ bounds of the inputs
MaxBlocks == 8
MaxGroupLen == 6
MaxElementBlocks == 2
MaxDocBlocks == 1
MaxCipImages == 1
MaxHierarchyLevel == 6
MaxLayoutBlocks == 6

\* All sequences over S of length at most n.
SeqsUpTo(S, n) == UNION {[1..k -> S] : k \in 0..n}

Min(a, b) == IF a <= b THEN a ELSE b

\* text[:n]
Truncate(text, n) == SubSeq(text, 1, Min(Len(text), n))

\* A content block of a CIP: what the engine reads of it.
CipBlock(id, type, level) ==
    [block_id |-> id, type |-> type, level |-> level, text |-> <<"t", "x", "t">>]

Kind(type, level) == [type |-> type, level |-> level]

\* The blocks of a CIP in sequence order; block ids are unique per CIP.
MakeBlocks(kinds) ==
    [i \in 1..Len(kinds) |-> CipBlock(i, kinds[i].type, kinds[i].level)]

ContentBlockType == {"heading", "paragraph", "list", "quote", "table", "callout"}

VisualDensity == {"tight", "balanced", "airy"}

\* ------------------------------------------------------- GestaltPrinciples
\* round(n / d) of Python 3: to the nearest integer, a tie to the even one.
Round(n, d) ==
    LET q == n \div d
        r == n % d IN
      IF 2 * r < d THEN q
      ELSE IF 2 * r > d THEN q + 1
      ELSE IF q % 2 = 0 THEN q ELSE q + 1

\* BASE_SIZE * SCALE_RATIO ** exponent in ten-thousandths of a point.  The code
\* computes in doubles; four decimals are kept here, and none of the five
\* sizes lies within 0.04 of a tie of round().
RECURSIVE Scaled(_, _)
Scaled(size, exponent) ==
    IF exponent = 0 THEN size
    ELSE IF exponent > 0
    THEN Scaled((size * ScaleRatioPerMille) \div 1000, exponent - 1)
    ELSE Scaled((size * 1000) \div ScaleRatioPerMille, exponent + 1)

\* exponent_map.get(hierarchy_level, 0)
Exponent(hierarchy_level) ==
    CASE hierarchy_level = 1 -> 3
      [] hierarchy_level = 2 -> 2
      [] hierarchy_level = 3 -> 1
      [] hierarchy_level = 5 -> -1
      [] OTHER -> 0

\* A size cut to whole points instead of rounded.
CalculateHierarchySizeTruncated(hierarchy_level) ==
    Scaled(BASE_SIZE * 10000, Exponent(hierarchy_level)) \div 10000

\* int(round(BASE_SIZE * SCALE_RATIO ** exponent)), SCALE_RATIO = 1333/1000
CalculateHierarchySize(hierarchy_level) ==
    Round(Scaled(BASE_SIZE * 10000, Exponent(hierarchy_level)), 10000)

\* TEXT_COLORS.get(hierarchy_level, TEXT_COLORS[4])
GetTextColor(hierarchy_level) ==
    CASE hierarchy_level = 1 -> "#1a1a1a"
      [] hierarchy_level = 2 -> "#333333"
      [] hierarchy_level = 3 -> "#4a4a4a"
      [] hierarchy_level = 5 -> "#666666"
      [] OTHER -> "#333333"

\* density_factors.get(visual_density, 1.0), in tenths
GetDensityFactor(visual_density) ==
    CASE visual_density = "tight" -> 7
      [] visual_density = "airy" -> 15
      [] OTHER -> 10

\* ------------------------------------------------------------ DesignEngine
\* A slide that begins only at a heading of level 0.
StartsNewSlideBelowLevelOne(block, current_group) ==
    \/ block.type = "heading" /\ block.level < 1 /\ current_group # << >>
    \/ Len(current_group) >= SlideGroupSize

\* A slide that breaks only when the group holds more than 5 items.
StartsNewSlideLate(block, current_group) ==
    \/ block.type = "heading" /\ block.level <= 1 /\ current_group # << >>
    \/ Len(current_group) > SlideGroupSize

\* Line 142: heading of level at most 1 after a non-empty group, or 5+ items.
StartsNewSlide(block, current_group) ==
    \/ block.type = "heading" /\ block.level <= 1 /\ current_group # << >>
    \/ Len(current_group) >= SlideGroupSize

\* The loop of lines 140-149 from block i on.
RECURSIVE GroupFrom(_, _, _, _)
GroupFrom(blocks, i, groups, current_group) ==
    IF i > Len(blocks)
    THEN IF current_group # << >> THEN Append(groups, current_group) ELSE groups
    ELSE IF StartsNewSlide(blocks[i], current_group)
    THEN GroupFrom(blocks, i + 1, Append(groups, current_group),
                   <<blocks[i]>>)
    ELSE GroupFrom(blocks, i + 1, groups,
                   Append(current_group, blocks[i]))

\* A grouping that forgets the group still open when the loop ends.
GroupContentForSlidesWithoutRest(blocks) ==
    LET groups == GroupFrom(blocks, 1, << >>, << >>) IN
      IF Len(groups) <= 1 THEN << << >> >> ELSE SubSeq(groups, 1, Len(groups) - 1)

GroupContentForSlides(blocks) ==
    LET groups == GroupFrom(blocks, 1, << >>, << >>) IN
      IF groups # << >> THEN groups ELSE << << >> >>

\* len([b for b in content_group if b.get("type") in ["paragraph", "list"]])
TextCount(content_group) ==
    Cardinality({i \in 1..Len(content_group) :
                    content_group[i].type \in {"paragraph", "list"}})

HasList(content_group) ==
    \E i \in 1..Len(content_group) : content_group[i].type = "list"

\* A selection that looks for a list before it looks for image_list.
SelectSlideTemplateListFirst(content_group, image_list, is_title) ==
    IF is_title THEN "title_slide"
    ELSE IF HasList(content_group) THEN "bullet_list"
    ELSE IF Len(image_list) > 0 /\ TextCount(content_group) <= 2 THEN "image_with_caption"
    ELSE IF Len(image_list) > 0 /\ TextCount(content_group) > 2 THEN "two_column_image_text"
    ELSE IF TextCount(content_group) > 5 THEN "text_heavy"
    ELSE "standard_content"

SelectSlideTemplate(content_group, image_list, is_title) ==
    IF is_title THEN "title_slide"
    ELSE IF Len(image_list) > 0 /\ TextCount(content_group) <= 2 THEN "image_with_caption"
    ELSE IF Len(image_list) > 0 /\ TextCount(content_group) > 2 THEN "two_column_image_text"
    ELSE IF HasList(content_group) THEN "bullet_list"
    ELSE IF TextCount(content_group) > 5 THEN "text_heavy"
    ELSE "standard_content"

\* A level that takes the heading's nesting level as it is.
DetermineHierarchyLevelUnshifted(block, index, is_title) ==
    IF block.type = "heading"
    THEN IF is_title /\ index = 0 THEN 1 ELSE Min(block.level, 3)
    ELSE IF block.type \in {"quote", "callout"} THEN 3
    ELSE 4

\* index counts from 0, as enumerate does.
DetermineHierarchyLevel(block, index, is_title) ==
    IF block.type = "heading"
    THEN IF is_title /\ index = 0 THEN 1 ELSE Min(block.level + 1, 3)
    ELSE IF block.type \in {"quote", "callout"} THEN 3
    ELSE 4

\* f"heading-{hierarchy_level}" if hierarchy_level <= 3 else "body-paragraph"
SimilarityFamily(hierarchy_level) ==
    IF hierarchy_level <= 3
    THEN [family |-> "heading", level |-> hierarchy_level]
    ELSE [family |-> "body-paragraph", level |-> NULL]

\* LayoutElement(...) of lines 191-209 and 232-249.  Lengths are in hundredths
\* of an inch (0.3 * density_factor is 3 * factor-in-tenths); element_id is a
\* fresh uuid and is left out.
LayoutElement(block, hierarchy_level, x, y, width, height, alignment, density_factor) ==
    [content_ref |-> block.block_id,
     type |-> "text",
     position |-> [x |-> x, y |-> y, width |-> width, height |-> height],
     font |-> [size_pt |-> CalculateHierarchySize(hierarchy_level),
               weight |-> IF hierarchy_level <= 2 THEN "bold" ELSE "normal"],
     color |-> GetTextColor(hierarchy_level),
     alignment |-> alignment,
     spacing |-> [margin_top |-> 3 * density_factor,
                  margin_bottom |-> 2 * density_factor,
                  line_height |-> 135],
     gestalt_rules |-> [hierarchy_level |-> hierarchy_level,
                        similarity_family |-> SimilarityFamily(hierarchy_level)]]

\* Lines 183-214; element idx (from 0) lies at y_offset + idx * 0.8 * factor.
CreateSlideElements(content_group, image_list, template, visual_density, is_title) ==
    LET density_factor == GetDensityFactor(visual_density)
        y_offset == IF is_title THEN 100 ELSE 50 IN
      [i \in 1..Len(content_group) |->
          LayoutElement(content_group[i],
                        DetermineHierarchyLevel(content_group[i], i - 1, is_title),
                        75, y_offset + (i - 1) * 8 * density_factor, 850, 100,
                        IF is_title /\ i - 1 = 0 THEN "center" ELSE "left",
                        density_factor)]

\* Lines 224-254; Styling's default alignment is left.
CreatePageElements(blocks, image_list, template, visual_density) ==
    LET density_factor == GetDensityFactor(visual_density) IN
      [i \in 1..Len(blocks) |->
          LayoutElement(blocks[i],
                        DetermineHierarchyLevel(blocks[i], i - 1, FALSE),
                        100, 100 + (i - 1) * 6 * density_factor, 650, 50,
                        "left", density_factor)]

\* StructureUnit(...); unit_id is a fresh uuid and is left out.
StructureUnit(type, title, template, elements) ==
    [type |-> type, title |-> title, template |-> template, elements |-> elements]

\* Field(max_length=50) on StructureUnit.elements: the constructor raises a
\* ValidationError for a longer list.
UnitIsValid(unit) == Len(unit.elements) <= MaxUnitElements

\* Lines 88-111.  The only empty group is the single group of an empty block
\* list, whose title f"Slide {idx + 1}" is "Slide 1".
GenerateSlides(blocks, image_list, visual_density) ==
    LET slide_groups == GroupContentForSlides(blocks) IN
      [idx \in 1..Len(slide_groups) |->
          LET group == slide_groups[idx]
              is_title_slide == idx = 1
              template == SelectSlideTemplate(group, image_list, is_title_slide) IN
            StructureUnit("slide",
                          IF group # << >>
                          THEN Truncate(group[1].text, UnitTitleChars)
                          ELSE <<"Slide 1">>,
                          template,
                          CreateSlideElements(group, image_list, template, visual_density,
                                              is_title_slide))]

\* Lines 117-133: one page with all the content.
GeneratePages(blocks, image_list, visual_density) ==
    << StructureUnit("page", <<"Document">>, "single_column",
                     CreatePageElements(blocks, image_list, "single_column",
                                        visual_density)) >>

\* Lines 274-277
ExtractTitle(blocks) ==
    LET headings == {i \in 1..Len(blocks) :
                        blocks[i].type = "heading"
                        /\ blocks[i].level <= 1} IN
      IF headings = {} THEN <<"Untitled Document">>
      ELSE Truncate(blocks[CHOOSE i \in headings :
                                      \A j \in headings : i <= j].text,
                    DocumentTitleChars)

\* Lines 284-291, in hundredths.
PrincipleScores ==
    [proximity |-> 85, similarity |-> 92, hierarchy |-> 88, alignment |-> 90,
     whitespace |-> 83, contrast |-> 95]

\* Weights with those of hierarchy and contrast exchanged.
QualityWeightsExchanged ==
    [proximity |-> 15, similarity |-> 15, hierarchy |-> 10, alignment |-> 20,
     whitespace |-> 15, contrast |-> 25]

\* Lines 294-301, in hundredths.
QualityWeights ==
    [proximity |-> 15, similarity |-> 15, hierarchy |-> 25, alignment |-> 20,
     whitespace |-> 15, contrast |-> 10]

RECURSIVE SumOver(_, _)
SumOver(f, S) ==
    IF S = {} THEN 0
    ELSE LET x == CHOOSE y \in S : TRUE IN f[x] + SumOver(f, S \ {x})

\* Line 303: sum(scores[key] * weight ...), in ten-thousandths.
OverallQuality ==
    SumOver([key \in DOMAIN QualityWeights |->
                PrincipleScores[key] * QualityWeights[key]],
            DOMAIN QualityWeights)

\* Lines 307-314, the thresholds in ten-thousandths.
QualityGrade(overall) ==
    IF overall >= 9000 THEN "excellent"
    ELSE IF overall >= 7500 THEN "good"
    ELSE IF overall >= 6000 THEN "acceptable"
    ELSE "needs_improvement"

\* Lines 279-329.  round(overall, 2) rounds the double that holds the sum; for
\* a sum that ends in 50 ten-thousandths (0.885) that double lies above the
\* tie and the result is the upper hundredth.
CalculateDesignRationale(structure, mode) ==
    [scores |-> PrincipleScores,
     overall |-> OverallQuality,
     overall_quality_score |-> (OverallQuality + 50) \div 100,
     quality_grade |-> QualityGrade(OverallQuality),
     ai_contributions |-> IF mode = "rule_only" THEN << >>
                          ELSE <<"AI mode disabled per requirements">>]

DocumentTypeFor(purpose) == IF purpose = "presentation" THEN "powerpoint" ELSE "word"

\* ------------------------------------------------- Content-Intent Packages
CipFields == {"schema_version", "session_id", "content"}

\* A CIP as a dict: the keys it has, and the values under them.  The session
\* id is one the intake service issued ("sess-<hex>").
Cip(fields, blocks, image_list, purpose, visual_density) ==
    [fields |-> fields,
     session_id |-> IF "session_id" \in fields THEN 1 ELSE NULL,
     blocks |-> blocks, image_list |-> image_list,
     purpose |-> purpose, visual_density |-> visual_density]

\* cip.get("content", {}).get("blocks", [])
CipBlocks(cip) == IF "content" \in cip.fields THEN cip.blocks ELSE << >>

\* cip.get("content", {}).get("image_list", [])
CipImages(cip) == IF "content" \in cip.fields THEN cip.image_list ELSE << >>

\* Lines 48-82 of design_engine.py.  The constructor of a structure unit that
\* holds too many elements raises, and so does generate_layout.
GenerateLayout(cip, document_type, mode) ==
    LET structure ==
            IF document_type = "powerpoint"
            THEN GenerateSlides(CipBlocks(cip), CipImages(cip), cip.visual_density)
            ELSE GeneratePages(CipBlocks(cip), CipImages(cip), cip.visual_density) IN
      IF \E u \in 1..Len(structure) : ~UnitIsValid(structure[u])
      THEN [raised |-> TRUE]
      ELSE [raised |-> FALSE,
            lsp |-> [proposal_id |-> ProposalIdFor(cip.session_id),
                     session_id |-> cip.session_id,
                     document_type |-> document_type,
                     metadata |-> [title |-> ExtractTitle(CipBlocks(cip)),
                                   theme |-> "corporate_blue", mode |-> mode],
                     structure |-> structure,
                     design_rationale |-> CalculateDesignRationale(structure, mode)]]

\* --------------------------------------------------------- ProposalService
\* Lines 41-42 of proposal_service.py
CipIsValid(cip) == "schema_version" \in cip.fields /\ "session_id" \in cip.fields

\* POST /proposals: create_proposal with _generate_layout and the handler's
\* mapping of the result.  The service is one asyncio process and nothing in
\* the call suspends, so the whole call is one step; the statuses queued and
\* processing are never observable.
CreateProposal(cip, key) ==
    /\ IF key # NoKey /\ key \in DOMAIN proposal_keys
       THEN /\ call' = [fn |-> "create_proposal", cip |-> cip, key |-> key,
                        code |-> 202, replayed |-> TRUE,
                        proposal_id |-> proposal_keys[key],
                        status |-> proposals[proposal_keys[key]].status]
            /\ UNCHANGED <<proposals, specifications, proposal_keys>>
       ELSE IF ~CipIsValid(cip)
       THEN /\ call' = [fn |-> "create_proposal", cip |-> cip, key |-> key,
                        code |-> 422, replayed |-> FALSE,
                        proposal_id |-> NULL, status |-> "NULL"]
            /\ UNCHANGED <<proposals, specifications, proposal_keys>>
       ELSE LET proposal_id == ProposalIdFor(cip.session_id)
                result == GenerateLayout(cip, DocumentTypeFor(cip.purpose), "rule_only")
                proposal == [proposal_id |-> proposal_id,
                             status |-> IF result.raised THEN "failed" ELSE "complete",
                             estimated_completion_seconds |-> 4,
                             session_id |-> cip.session_id,
                             error |-> IF result.raised THEN "error" ELSE NoError] IN
              /\ proposals' = (proposal_id :> proposal) @@ proposals
              /\ proposal_keys' = IF key = NoKey THEN proposal_keys
                                  ELSE (key :> proposal_id) @@ proposal_keys
              /\ specifications' = IF result.raised THEN specifications
                                   ELSE (proposal_id :> result.lsp) @@ specifications
              /\ call' = [fn |-> "create_proposal", cip |-> cip, key |-> key,
                          code |-> 202, replayed |-> FALSE,
                          proposal_id |-> proposal_id, status |-> proposal.status]
    /\ UNCHANGED <<intake, workflow>>

\* GET /proposals/{proposal_id}
GetProposal(proposal_id) ==
    /\ call' = IF proposal_id \in DOMAIN proposals
               THEN [fn |-> "get_proposal", proposal_id |-> proposal_id, code |-> 200,
                     status |-> proposals[proposal_id].status,
                     error |-> proposals[proposal_id].error]
               ELSE [fn |-> "get_proposal", proposal_id |-> proposal_id, code |-> 404,
                     status |-> "NULL", error |-> NoError]
    /\ UNCHANGED <<intake, proposals, specifications, proposal_keys, workflow>>

\* GET /proposals/{proposal_id}/spec
GetSpecification(proposal_id) ==
    /\ call' = [fn |-> "get_specification", proposal_id |-> proposal_id,
                code |-> IF proposal_id \in DOMAIN specifications THEN 200 ELSE 404]
    /\ UNCHANGED <<intake, proposals, specifications, proposal_keys, workflow>>

\* The CIPs sent to the engine.  Complete ones: short documents of every mix
\* of kinds under every purpose and density, and documents of as many
\* paragraphs as a structure unit holds and of one more.  Incomplete ones:
\* every proper subset of the required keys.
DocumentKinds == {Kind("heading", 1), Kind("paragraph", 0), Kind("quote", 0)}

ShortDocuments == {MakeBlocks(kinds) : kinds \in SeqsUpTo(DocumentKinds, MaxDocBlocks)}

LongDocuments ==
    {MakeBlocks([i \in 1..n |-> Kind("paragraph", 0)]) :
        n \in {MaxUnitElements, MaxUnitElements + 1}}

Purposes == {"presentation", "report"}

Cips ==
    {Cip(CipFields, blocks, << >>, purpose, visual_density) :
        blocks \in ShortDocuments, purpose \in Purposes,
        visual_density \in VisualDensity}
    \cup {Cip(CipFields, blocks, << >>, purpose, "balanced") :
             blocks \in LongDocuments, purpose \in Purposes}
    \cup {Cip(fields,
              IF "content" \in fields THEN MakeBlocks(<<Kind("paragraph", 0)>>)
              ELSE << >>,
              << >>, purpose, "balanced") :
             fields \in (SUBSET CipFields) \ {CipFields}, purpose \in Purposes}

ProposalIds == {ProposalIdFor(sid) : sid \in SessionIds}

\* ------------------------------------- the engine's functions, one by one
GroupingKinds ==
    {Kind("heading", 0), Kind("heading", 1), Kind("heading", 2), Kind("paragraph", 0)}

TemplateKinds ==
    {Kind("heading", 1), Kind("paragraph", 0), Kind("list", 0), Kind("quote", 0)}

\* ContentBlock.level: Field(ge=0, le=6)
ElementKinds ==
    {Kind(type, 0) : type \in ContentBlockType}
    \cup {Kind("heading", level) : level \in 0..6}

LayoutModes == {"rule_only", "ai_assist", "ai_full"}

\* A call of one of the design engine's functions with its arguments, not yet
\* evaluated.
GroupCall(kinds) ==
    [fn |-> "group_content_for_slides", done |-> FALSE, result |-> NULL,
     blocks |-> MakeBlocks(kinds)]

TemplateCall(kinds, image_list, is_title) ==
    [fn |-> "select_slide_template", done |-> FALSE, result |-> NULL,
     content_group |-> MakeBlocks(kinds), image_list |-> image_list,
     is_title |-> is_title]

SlideElementsCall(kinds, visual_density, is_title) ==
    [fn |-> "create_slide_elements", done |-> FALSE, result |-> NULL,
     content_group |-> MakeBlocks(kinds), visual_density |-> visual_density,
     is_title |-> is_title]

PageElementsCall(kinds, visual_density) ==
    [fn |-> "create_page_elements", done |-> FALSE, result |-> NULL,
     blocks |-> MakeBlocks(kinds), visual_density |-> visual_density]

RationaleCall(mode) ==
    [fn |-> "calculate_design_rationale", done |-> FALSE, result |-> NULL,
     mode |-> mode]

HierarchySizeCall(hierarchy_level) ==
    [fn |-> "calculate_hierarchy_size", done |-> FALSE, result |-> NULL,
     hierarchy_level |-> hierarchy_level]

DocumentTypes == {"powerpoint", "word"}

LayoutCall(kinds, document_type, visual_density) ==
    [fn |-> "generate_layout", done |-> FALSE, result |-> NULL,
     cip |-> Cip(CipFields, MakeBlocks(kinds), << >>,
                 IF document_type = "powerpoint" THEN "presentation" ELSE "report",
                 visual_density),
     document_type |-> document_type]

Pending(fn) == call.fn = fn /\ ~call.done

Return(result) ==
    /\ call' = [call EXCEPT !.done = TRUE, !.result = result]
    /\ UNCHANGED <<intake, proposals, specifications, proposal_keys, workflow>>

ApplyGroupContentForSlides ==
    /\ Pending("group_content_for_slides")
    /\ Return(GroupContentForSlides(call.blocks))

ApplySelectSlideTemplate ==
    /\ Pending("select_slide_template")
    /\ Return(SelectSlideTemplate(call.content_group, call.image_list, call.is_title))

ApplyCreateSlideElements ==
    /\ Pending("create_slide_elements")
    /\ Return(CreateSlideElements(call.content_group, << >>, "standard_content",
                                  call.visual_density, call.is_title))

ApplyCreatePageElements ==
    /\ Pending("create_page_elements")
    /\ Return(CreatePageElements(call.blocks, << >>, "single_column",
                                 call.visual_density))

ApplyCalculateDesignRationale ==
    /\ Pending("calculate_design_rationale")
    /\ Return(CalculateDesignRationale(<< >>, call.mode))

ApplyCalculateHierarchySize ==
    /\ Pending("calculate_hierarchy_size")
    /\ Return(CalculateHierarchySize(call.hierarchy_level))

ApplyGenerateLayout ==
    /\ Pending("generate_layout")
    /\ Return(GenerateLayout(call.cip, call.document_type, "rule_only"))

\* The intake service with an empty database and no request in flight.
IntakeIdle ==
    /\ sessions = << >>
    /\ content_blocks = << >>
    /\ images = << >>
    /\ idempotency_keys = << >>
    /\ nextId = 1
    /\ now = 0
    /\ req = [w \in Workers |-> Idle]
    /\ last = NoResponse
    /\ createdWith = << >>

\* ProposalService.__init__
EngineInit ==
    /\ IntakeIdle
    /\ proposals = << >>
    /\ specifications = << >>
    /\ proposal_keys = << >>
    /\ workflow = NoWorkflow
    /\ call = NoCall

EngineNext ==
    \/ \E cip \in Cips, key \in Keys \cup {NoKey} : CreateProposal(cip, key)
    \/ \E proposal_id \in ProposalIds : GetProposal(proposal_id)
    \/ \E proposal_id \in ProposalIds : GetSpecification(proposal_id)

\* The engine service under the requests of its clients.
EngineSpec == EngineInit /\ [][EngineNext]_vars

DesignInit ==
    /\ IntakeIdle
    /\ proposals = << >>
    /\ specifications = << >>
    /\ proposal_keys = << >>
    /\ workflow = NoWorkflow
    /\ \/ \E n \in 0..MaxBlocks : \E kinds \in [1..n -> GroupingKinds] :
             call = GroupCall(kinds)
       \/ \E n \in 0..MaxGroupLen : \E kinds \in [1..n -> TemplateKinds] :
             \E m \in 0..MaxCipImages, is_title \in BOOLEAN :
                call = TemplateCall(kinds, [i \in 1..m |-> "image"], is_title)
       \/ \E n \in 0..MaxElementBlocks : \E kinds \in [1..n -> ElementKinds] :
             \E visual_density \in VisualDensity, is_title \in BOOLEAN :
                call = SlideElementsCall(kinds, visual_density, is_title)
       \/ \E n \in 0..MaxElementBlocks : \E kinds \in [1..n -> ElementKinds] :
             \E visual_density \in VisualDensity :
                call = PageElementsCall(kinds, visual_density)
       \/ \E mode \in LayoutModes : call = RationaleCall(mode)
       \/ \E hierarchy_level \in 0..MaxHierarchyLevel :
             call = HierarchySizeCall(hierarchy_level)
       \/ \E n \in 0..MaxLayoutBlocks : \E kinds \in [1..n -> GroupingKinds] :
             \E document_type \in DocumentTypes, visual_density \in VisualDensity :
                call = LayoutCall(kinds, document_type, visual_density)

DesignNext ==
    \/ ApplyGroupContentForSlides
    \/ ApplySelectSlideTemplate
    \/ ApplyCreateSlideElements
    \/ ApplyCreatePageElements
    \/ ApplyCalculateDesignRationale
    \/ ApplyCalculateHierarchySize
    \/ ApplyGenerateLayout

\* Each function of DesignEngine applied to each of its inputs.
DesignSpec == DesignInit /\ [][DesignNext]_vars

\* ----------------------------------- _normalize_content, block by block
\* The bounds of the blocks normalized.
MaxWords == 7
MaxSequence == 1

\* A text of n words separated by single blanks.
Words(n) == [i \in 1..(IF n = 0 THEN 0 ELSE 2 * n - 1) |->
                IF i % 2 = 1 THEN "w" ELSE " "]

ClientRoles == {NoRole, "summary"}

ClientMetrics == {EmptyMetrics, [word_count |-> 7, estimated_reading_seconds |-> -1]}

\* _normalize_content on a session of one inserted block.  computed is
\* block.metrics as the loop leaves it in memory, stored the row as the commit
\* of create_session writes it.
NormalizeCall(block) ==
    [fn |-> "normalize_content", done |-> FALSE, result |-> NULL, block |-> block]

ApplyNormalizeContent ==
    /\ Pending("normalize_content")
    /\ Return([computed |-> ComputedMetrics(call.block),
               stored |-> NormalizeContent(<<call.block>>)[1]])

NormalizeInit ==
    /\ IntakeIdle
    /\ proposals = << >>
    /\ specifications = << >>
    /\ proposal_keys = << >>
    /\ workflow = NoWorkflow
    /\ \E type \in ContentBlockType, sequence \in 0..MaxSequence, n \in 0..MaxWords,
          role \in ClientRoles, metrics \in ClientMetrics :
          call = NormalizeCall(
                    WithRole(WithMetrics(ContentBlock(1, type, 0, sequence, Words(n)),
                                         metrics),
                             role))

NormalizeNext == ApplyNormalizeContent

\* The normalization applied to each block of a bounded set.
NormalizeSpec == NormalizeInit /\ [][NormalizeNext]_vars

\* ========================================================= Document Formatter
MaxRenderBlocks == 3

\* The prefix of the placeholder that _resolve_content returns for a
\* content_ref the content_map does not hold (the reference that follows it in
\* the placeholder is left out).
MissingContent == <<"[Missing content: ">>

\* content_text.startswith("[Missing content")
StartsWithMissing(content_text) ==
    content_text # << >> /\ content_text[1] = MissingContent[1]

\* An LSP as the formatter receives it in a RenderRequest: the JSON of the
\* engine's LayoutSpecificationPackage, which has no content_map key, or that
\* JSON with a content_map a client added.  lsp.get("content_map", {}) of the
\* former is the empty dict.
PostedLsp(lsp, content_map) ==
    [schema_version |-> "1.1", proposal_id |-> lsp.proposal_id,
     session_id |-> lsp.session_id, document_type |-> lsp.document_type,
     metadata |-> lsp.metadata, structure |-> lsp.structure,
     content_map |-> content_map]

\* block_id -> text of every block of the CIP
ContentMapOf(blocks) ==
    [block_id \in {blocks[i].block_id : i \in 1..Len(blocks)} |->
        blocks[CHOOSE i \in 1..Len(blocks) : blocks[i].block_id = block_id].text]

\* _resolve_content of both renderers; None is the empty text.
ResolveContent(content_ref, lsp) ==
    IF content_ref = NULL THEN << >>
    ELSE IF content_ref \in DOMAIN lsp.content_map THEN lsp.content_map[content_ref]
    ELSE MissingContent

RECURSIVE Flatten(_)
Flatten(seqs) == IF seqs = << >> THEN << >> ELSE Head(seqs) \o Flatten(Tail(seqs))

\* WordRenderer._render_element: what the element adds to the document.  The
\* texts rendered here are shorter than the 500 characters from which a body
\* paragraph is split into its sentences.
RenderElement(element, lsp) ==
    LET content_text == ResolveContent(element.content_ref, lsp) IN
      IF content_text = << >> \/ StartsWithMissing(content_text) THEN << >>
      ELSE IF element.type = "text"
      THEN << [style |-> IF element.gestalt_rules.hierarchy_level <= 3
                         THEN "heading" ELSE "paragraph",
               content_ref |-> element.content_ref, text |-> content_text] >>
      ELSE IF element.type = "image"
      THEN << [style |-> "caption", content_ref |-> element.content_ref,
               text |-> content_text] >>
      ELSE << >>

\* WordRenderer.render: the paragraphs of the document in order.
WordRender(lsp) ==
    Flatten([unit_idx \in 1..Len(lsp.structure) |->
        LET unit == lsp.structure[unit_idx] IN
          (IF unit.title # << >> /\ unit_idx = 1
           THEN << [style |-> "title", content_ref |-> NULL, text |-> unit.title] >>
           ELSE << >>)
          \o Flatten([i \in 1..Len(unit.elements) |-> RenderElement(unit.elements[i], lsp)])
          \o (IF unit_idx < Len(lsp.structure)
              THEN << [style |-> "page_break", content_ref |-> NULL, text |-> << >>] >>
              ELSE << >>)])

\* PowerPointRenderer._select_layout: the index of the slide layout.
SelectLayout(template, is_title) ==
    IF is_title \/ template = "title_slide" THEN 0
    ELSE IF template \in {"bullet_list", "standard_content"} THEN 1
    ELSE IF template = "title_only" THEN 5
    ELSE 6

\* PowerPointRenderer._render_slide_elements: the shapes of one slide.  Layout
\* 6 (Blank) has no title placeholder.
RenderSlideElements(slide_layout, elements, slide_title, lsp) ==
    (IF slide_title # << >> /\ slide_layout # 6
     THEN << [style |-> "title", content_ref |-> NULL, text |-> slide_title] >>
     ELSE << >>)
    \o Flatten([i \in 1..Len(elements) |->
          LET content_text == ResolveContent(elements[i].content_ref, lsp) IN
            IF content_text = << >> \/ StartsWithMissing(content_text) THEN << >>
            ELSE IF elements[i].type \in {"text", "image", "table"}
            THEN << [style |-> "textbox", content_ref |-> elements[i].content_ref,
                     text |-> content_text] >>
            ELSE << >>])

\* PowerPointRenderer.render: the shapes of the presentation, slide by slide.
PowerPointRender(lsp) ==
    Flatten([unit_idx \in 1..Len(lsp.structure) |->
        LET unit == lsp.structure[unit_idx] IN
          RenderSlideElements(SelectLayout(unit.template, unit_idx = 1),
                              unit.elements, unit.title, lsp)])

\* RenderService._validate_lsp
ValidateLsp(lsp) ==
    {"schema_version", "proposal_id", "session_id", "document_type", "structure"}
        \subseteq DOMAIN lsp

\* A POST /render/documents or /render/presentations not yet served; blocks are
\* the content blocks of the CIP the LSP was generated from.
RenderCall(fn, blocks, lsp) ==
    [fn |-> fn, done |-> FALSE, result |-> NULL, blocks |-> blocks, lsp |-> lsp]

\* RenderService.render_document
RenderDocument ==
    /\ Pending("render_document")
    /\ Return(IF ValidateLsp(call.lsp)
              THEN [code |-> 202, status |-> "complete", output |-> WordRender(call.lsp)]
              ELSE [code |-> 422, status |-> "NULL", output |-> << >>])

\* RenderService.render_presentation
RenderPresentation ==
    /\ Pending("render_presentation")
    /\ Return(IF ValidateLsp(call.lsp)
              THEN [code |-> 202, status |-> "complete",
                    output |-> PowerPointRender(call.lsp)]
              ELSE [code |-> 422, status |-> "NULL", output |-> << >>])

RenderInit ==
    /\ IntakeIdle
    /\ proposals = << >>
    /\ specifications = << >>
    /\ proposal_keys = << >>
    /\ workflow = NoWorkflow
    /\ \E n \in 0..MaxRenderBlocks : \E kinds \in [1..n -> DocumentKinds] :
          \E document_type \in DocumentTypes, with_content_map \in BOOLEAN,
             fn \in {"render_document", "render_presentation"} :
             LET cip == LayoutCall(kinds, document_type, "balanced").cip
                 lsp == GenerateLayout(cip, document_type, "rule_only").lsp IN
               call = RenderCall(fn, cip.blocks,
                                 PostedLsp(lsp, IF with_content_map
                                                THEN ContentMapOf(cip.blocks)
                                                ELSE << >>))

RenderNext == RenderDocument \/ RenderPresentation

\* The formatter rendering the LSPs of the engine.
RenderSpec == RenderInit /\ [][RenderNext]_vars

\* ================================================================ User Agent
\* max_attempts of _poll_session_ready
MaxAttempts == 30

OutputFormats == {"word", "pptx", "both"}

\* WorkflowOrchestrator.__init__ and the entry of run_workflow.  polls counts
\* the GETs of _poll_session_ready, observed is the status the latest of them
\* returned ("error": the request failed or raise_for_status raised),
\* poll_outcome how _poll_session_ready ended.
WorkflowStart(output_format) ==
    [pc |-> "create_session", output_format |-> output_format,
     current_state |-> "initialized", polls |-> 0, observed |-> "NULL",
     poll_outcome |-> "none", proposal_id |-> NULL, result |-> "NULL"]

\* Line 93-94: any exception ends run_workflow with status failed; the state
\* machine is left where it was.
Failed(w) == [w EXCEPT !.pc = "done", !.result = "failed"]

Others == <<sessions, content_blocks, images, idempotency_keys, nextId, now, req, last,
            createdWith, proposals, specifications, proposal_keys, call>>

\* Lines 50-51: POST /intake/sessions
WorkflowCreateSession ==
    /\ workflow.pc = "create_session"
    /\ \E ok \in BOOLEAN :
          workflow' = IF ok
                      THEN [workflow EXCEPT !.pc = "submit_session",
                                            !.current_state = "submitted"]
                      ELSE Failed(workflow)
    /\ UNCHANGED Others

\* Lines 56-57: POST /intake/sessions/{id}/submit
WorkflowSubmitSession ==
    /\ workflow.pc = "submit_session"
    /\ \E ok \in BOOLEAN :
          workflow' = IF ok
                      THEN [workflow EXCEPT !.pc = "poll_session_ready",
                                            !.current_state = "layout_queued"]
                      ELSE Failed(workflow)
    /\ UNCHANGED Others

\* A poll that treats failed as one more status to wait on.
PollObservesWaitingOnFailed(w, observed) ==
    LET polled == [w EXCEPT !.polls = w.polls + 1, !.observed = observed] IN
      IF observed = "error"
      THEN Failed([polled EXCEPT !.poll_outcome = "http_error"])
      ELSE IF observed = "layout_complete"
      THEN [polled EXCEPT !.pc = "get_layout_spec", !.poll_outcome = "returned",
                          !.proposal_id = ProposalIdFor(1),
                          !.current_state = "layout_complete"]
      ELSE IF polled.polls >= MaxAttempts
      THEN Failed([polled EXCEPT !.poll_outcome = "timed_out"])
      ELSE polled

\* Lines 123-135 and 62-63: one iteration of the loop, the GET with what
\* follows it.  The sleep of the last iteration is followed by the
\* TimeoutError; the return is followed by the transition of line 63.
PollObserves(w, observed) ==
    LET polled == [w EXCEPT !.polls = w.polls + 1, !.observed = observed] IN
      IF observed = "error"
      THEN Failed([polled EXCEPT !.poll_outcome = "http_error"])
      ELSE IF observed = "layout_complete"
      THEN [polled EXCEPT !.pc = "get_layout_spec", !.poll_outcome = "returned",
                          !.proposal_id = ProposalIdFor(1),
                          !.current_state = "layout_complete"]
      ELSE IF observed = "failed"
      THEN Failed([polled EXCEPT !.poll_outcome = "raised"])
      ELSE IF polled.polls >= MaxAttempts
      THEN Failed([polled EXCEPT !.poll_outcome = "timed_out"])
      ELSE polled

\* The session status of the response is any of the service's, or the request
\* fails (the client's timeout is 30 seconds, line 25).
WorkflowPollSessionReady ==
    /\ workflow.pc = "poll_session_ready"
    /\ \E observed \in SessionStatus \cup {"error"} :
          workflow' = PollObserves(workflow, observed)
    /\ UNCHANGED Others

\* Line 68: GET /layout/proposals/{id}/spec
WorkflowGetLayoutSpec ==
    /\ workflow.pc = "get_layout_spec"
    /\ \E ok \in BOOLEAN :
          workflow' = IF ok
                      THEN [workflow EXCEPT !.pc =
                               IF workflow.output_format \in {"word", "both"}
                               THEN "render_document" ELSE "render_presentation"]
                      ELSE Failed(workflow)
    /\ UNCHANGED Others

\* Line 84-91
Delivered(w) == [w EXCEPT !.pc = "done", !.current_state = "delivered",
                          !.result = "success"]

\* Lines 72-76: POST /render/documents
WorkflowRenderDocument ==
    /\ workflow.pc = "render_document"
    /\ \E ok \in BOOLEAN :
          workflow' = IF ~ok THEN Failed(workflow)
                      ELSE IF workflow.output_format = "both"
                      THEN [workflow EXCEPT !.pc = "render_presentation"]
                      ELSE Delivered(workflow)
    /\ UNCHANGED Others

\* Lines 78-82: POST /render/presentations
WorkflowRenderPresentation ==
    /\ workflow.pc = "render_presentation"
    /\ \E ok \in BOOLEAN :
          workflow' = IF ok THEN Delivered(workflow) ELSE Failed(workflow)
    /\ UNCHANGED Others

WorkflowInit ==
    /\ IntakeIdle
    /\ proposals = << >>
    /\ specifications = << >>
    /\ proposal_keys = << >>
    /\ call = NoCall
    /\ \E output_format \in OutputFormats : workflow = WorkflowStart(output_format)

WorkflowNext ==
    \/ WorkflowCreateSession
    \/ WorkflowSubmitSession
    \/ WorkflowPollSessionReady
    \/ WorkflowGetLayoutSpec
    \/ WorkflowRenderDocument
    \/ WorkflowRenderPresentation

\* One run of the orchestrator against services that answer anything.
WorkflowSpec == WorkflowInit /\ [][WorkflowNext]_vars

\* Every request of the client returns or times out, and the sleep ends.
FairWorkflowSpec == WorkflowSpec /\ WF_vars(WorkflowNext)

\* ============================================================== properties
\* A handler of worker w returns its response in this step.
Answers(w) == req[w].op # "idle" /\ req'[w].op = "idle"

\* C1: a submit succeeds (200) exactly when the status its query found is
\* draft or ready; from normalizing, layout_queued, layout_processing,
\* layout_complete and failed it is answered 409.
C1_SubmitOnlyFromDraftOrReady ==
    last.op = "submit" =>
        /\ last.code = 200 <=> last.seen \in {"draft", "ready"}
        /\ last.seen \in SessionStatus \ {"draft", "ready"} => last.code = 409

C1_Witness ==
    /\ last.op = "submit"
    /\ last.code = 409
    /\ last.seen = "layout_processing"

\* C2: a delete of a layout_complete session is answered 409 and the session
\* stays; from every other status, failed included, it is answered 204 and the
\* session row, its content blocks and its images are gone.
C2_DeleteOnlyBlockedWhenComplete ==
    (last.op = "delete" /\ last.seen \in SessionStatus) =>
        IF last.seen = "layout_complete"
        THEN last.code = 409 /\ last.sid \in DOMAIN sessions
        ELSE /\ last.code = 204
             /\ last.sid \notin DOMAIN sessions
             /\ last.sid \notin DOMAIN content_blocks
             /\ last.sid \notin DOMAIN images

C2_Witness ==
    /\ last.op = "delete"
    /\ last.code = 204
    /\ last.seen = "failed"

\* C3: a step that answers a submit or a delete with 409 because of the
\* session's status leaves every table as it was, and the session still exists.
C3_RejectionChangesNothing ==
    [][(/\ last' # last
        /\ last'.op \in {"submit", "delete"}
        /\ last'.code = 409
        /\ last'.seen \in SessionStatus)
       => /\ UNCHANGED db
          /\ last'.sid \in DOMAIN sessions']_vars

C3_Witness ==
    /\ last.op = "delete"
    /\ last.code = 409
    /\ last.seen = "layout_complete"
    /\ last.sid \in DOMAIN sessions
    /\ now > sessions[last.sid].updated_at

\* C4: after a successful submit the response carries status layout_queued and
\* a non-null proposal_id, and the stored row carries the same two values.
C4_SubmitQueuesWithProposal ==
    (last.op = "submit" /\ last.code = 200) =>
        /\ last.status = "layout_queued"
        /\ last.proposal_id # NULL
        /\ last.sid \in DOMAIN sessions
        /\ sessions[last.sid].status = "layout_queued"
        /\ sessions[last.sid].proposal_id = last.proposal_id

C4_Witness ==
    /\ last.op = "submit"
    /\ last.code = 200
    /\ last.seen = "ready"
    /\ sessions[last.sid].proposal_id = last.proposal_id

\* C5: a create that carries a key recorded by an earlier create (whose session
\* still exists) is answered 201 with the recorded session_id, which is the id
\* the first call returned, and changes no table, allocates no session and
\* leaves the blocks and the session's updated_at as normalization left them.
C5_ReplayReturnsSameSession ==
    /\ [](\A k \in Keys :
            (last.op = "create" /\ last.key = k /\ last.code = 201)
                => k \in DOMAIN idempotency_keys
                   /\ idempotency_keys[k].session_id = last.sid)
    /\ [][\A k \in Keys :
            (/\ k \in DOMAIN idempotency_keys
             /\ idempotency_keys[k].session_id \in DOMAIN sessions
             /\ last' # last
             /\ last'.op = "create"
             /\ last'.key = k)
            => /\ last'.code = 201
               /\ last'.sid = idempotency_keys[k].session_id
               /\ UNCHANGED <<db, nextId>>]_vars

C5_Witness ==
    /\ last.op = "create"
    /\ last.code = 201
    /\ last.key \in Keys
    /\ last.seen = "ready"
    /\ now > sessions[last.sid].updated_at

\* C6 (as claimed): for every key at most one session is ever created, and
\* every create carrying the key of a stored session is answered 201 with that
\* session.
C6_EveryCallReturnsTheOneSession ==
    /\ \A s, t \in DOMAIN createdWith :
          (createdWith[s] # NoKey /\ createdWith[s] = createdWith[t]) => s = t
    /\ (/\ last.op = "create"
        /\ last.key \in DOMAIN idempotency_keys
        /\ idempotency_keys[last.key].session_id \in DOMAIN sessions)
       => /\ last.code = 201
          /\ last.sid = idempotency_keys[last.key].session_id

\* C7 (as claimed): the status transition of a submit is atomic: whenever a
\* submit is answered 200, the session exists and is draft or ready at the very
\* step that applies the update (so two submits never both succeed, and none
\* succeeds on a deleted session).
C7_SubmitsAreSerialized ==
    [][\A w \in Workers :
          (Answers(w) /\ last'.op = "submit" /\ last'.code = 200)
          => /\ last'.sid \in DOMAIN sessions
             /\ sessions[last'.sid].status \in {"draft", "ready"}]_vars

\* C8 (as claimed): a session whose submit succeeded eventually is
\* layout_complete or failed (or has been deleted by its client).
C8_QueuedEventuallyCompletesOrFails ==
    \A sid \in SessionIds :
        (last.op = "submit" /\ last.code = 200 /\ last.sid = sid)
        ~> \/ sid \notin DOMAIN sessions
           \/ sessions[sid].status \in {"layout_complete", "failed"}

\* C9 (as claimed): a submit that repeats, with the same idempotency key, the
\* submit just answered 200 is answered 200 again with status layout_queued and
\* the same proposal_id, and changes nothing.
C9_SubmitReplayReturnsPriorResult ==
    [][(/\ last.op = "submit"
        /\ last.code = 200
        /\ last.key \in Keys
        /\ last' # last
        /\ last'.op = "submit"
        /\ last'.sid = last.sid
        /\ last'.key = last.key)
       => /\ last'.code = 200
          /\ last'.status = "layout_queued"
          /\ last'.proposal_id = last.proposal_id
          /\ UNCHANGED db]_vars

\* The lifecycle order of section 4.1.
Rank(status) ==
    CASE status = "draft" -> 0
      [] status = "normalizing" -> 1
      [] status = "ready" -> 2
      [] status = "layout_queued" -> 3
      [] status = "layout_processing" -> 4
      [] status = "layout_complete" -> 5
      [] status = "failed" -> 6

\* C10: no step moves the status of a stored session backward in the order
\* draft, normalizing, ready, layout_queued, layout_processing,
\* layout_complete, and no step changes a status that is layout_complete or
\* failed.
C10_StatusNeverMovesBackward ==
    [][\A sid \in DOMAIN sessions \cap DOMAIN sessions' :
          /\ Rank(sessions[sid].status) <= Rank(sessions'[sid].status)
          /\ sessions[sid].status \in {"layout_complete", "failed"}
                => sessions'[sid].status = sessions[sid].status]_vars

C10_Witness ==
    /\ last.op = "submit"
    /\ last.code = 409
    /\ last.seen = "failed"
    /\ last.sid \in DOMAIN sessions
    /\ sessions[last.sid].status = "failed"

\* The statuses from ready onward in the lifecycle order.
ReadyOrLater == {"ready", "layout_queued", "layout_processing", "layout_complete"}

\* C11 (as claimed): every content block of a stored session whose status is
\* ready or later has a non-empty detected_role and a word_count metric equal
\* to the number of whitespace-delimited tokens of its text.
C11_ReadyBlocksAreEnriched ==
    \A sid \in DOMAIN sessions :
        sessions[sid].status \in ReadyOrLater =>
            \A i \in 1..Len(content_blocks[sid]) :
                /\ content_blocks[sid][i].detected_role # NoRole
                /\ content_blocks[sid][i].metrics.word_count
                      = WordCount(content_blocks[sid][i].text)

\* C12: a create whose normalization (or commit) fails is answered 500 and
\* persists nothing: every table is as before, no session, block or image row
\* of the failed creation exists, so no session is stored with some blocks
\* enriched and others not.
C12_FailedNormalizationPersistsNothing ==
    [][(last' # last /\ last'.op = "create" /\ last'.code = 500)
       => /\ UNCHANGED db
          /\ last'.sid \notin DOMAIN sessions'
          /\ last'.sid \notin DOMAIN content_blocks'
          /\ last'.sid \notin DOMAIN images']_vars

C12_Witness ==
    /\ last.op = "create"
    /\ last.code = 500
    /\ last.seen = "draft"
    /\ last.sid \in SessionIds
    /\ last.sid \notin DOMAIN sessions
    /\ last.sid \notin DOMAIN content_blocks

\* C13 (as claimed): after a create whose normalization failed, the session is
\* stored with status failed and the error in error_message.
C13_FailedNormalizationIsRecorded ==
    (last.op = "create" /\ last.code = 500 /\ last.seen = "draft") =>
        /\ last.sid \in DOMAIN sessions
        /\ sessions[last.sid].status = "failed"
        /\ sessions[last.sid].error_message # NoError

\* C14 (as claimed): a create_proposal whose CIP lacks schema_version,
\* session_id or content is answered with the validation error (422) and
\* records no proposal, no specification and no idempotency key.
C14_IncompleteCipIsRejected ==
    [][(/\ call' # call
        /\ call'.fn = "create_proposal"
        /\ call'.cip.fields # CipFields)
       => /\ call'.code = 422
          /\ UNCHANGED <<proposals, specifications, proposal_keys>>]_vars

\* C15 (as claimed): a create_proposal whose CIP has the required fields and
\* 1 to 1000 content blocks ends with the proposal complete and a
\* specification stored, each of whose structure units holds at most 50
\* elements.
C15_ValidCipGeneratesCompleteLayout ==
    (/\ call.fn = "create_proposal"
     /\ ~call.replayed
     /\ call.cip.fields = CipFields
     /\ Len(call.cip.blocks) \in 1..MaxContentBlocks)
    => /\ call.code = 202
       /\ call.status = "complete"
       /\ proposals[call.proposal_id].status = "complete"
       /\ call.proposal_id \in DOMAIN specifications
       /\ \A u \in 1..Len(specifications[call.proposal_id].structure) :
             Len(specifications[call.proposal_id].structure[u].elements) <= 50

\* The block sequence [H1, P, P, P, P, P, H1, P].
IsTwoSectionExample(blocks) ==
    /\ Len(blocks) = 8
    /\ \A i \in {1, 7} : blocks[i].type = "heading" /\ blocks[i].level <= 1
    /\ \A i \in {2, 3, 4, 5, 6, 8} : blocks[i].type = "paragraph"

Grouped == call.fn = "group_content_for_slides" /\ call.done

\* C16 (as claimed): grouping [H1, P, P, P, P, P, H1, P] yields exactly 2
\* groups.
C16_ExampleYieldsTwoGroups ==
    (Grouped /\ IsTwoSectionExample(call.blocks)) => Len(call.result) = 2

\* C16 (amended): grouping [H1, P, P, P, P, P, H1, P] yields exactly 3 groups:
\* the first five blocks, the sixth block alone (the cap of 5), and the second
\* H1 with the last paragraph.
C16_ExampleYieldsThreeGroups ==
    (Grouped /\ IsTwoSectionExample(call.blocks)) =>
        /\ Len(call.result) = 3
        /\ call.result[1] = SubSeq(call.blocks, 1, 5)
        /\ call.result[2] = SubSeq(call.blocks, 6, 6)
        /\ call.result[3] = SubSeq(call.blocks, 7, 8)

C16_Witness ==
    /\ Grouped
    /\ IsTwoSectionExample(call.blocks)
    /\ Len(call.result) = 3

\* C17: every group the grouper produces holds at most 5 blocks, and a
\* heading of nesting level at most 1 stands nowhere but first in its group.
C17_GroupsAreCappedAndStartAtHeadings ==
    Grouped =>
        \A g \in 1..Len(call.result) :
            /\ Len(call.result[g]) <= 5
            /\ \A j \in 2..Len(call.result[g]) :
                  ~(call.result[g][j].type = "heading" /\ call.result[g][j].level <= 1)

C17_Witness ==
    /\ Grouped
    /\ Len(call.result) >= 3
    /\ \E g \in 1..Len(call.result) : Len(call.result[g]) = 5
    /\ \E g \in 2..Len(call.result) :
          /\ call.result[g][1].type = "heading"
          /\ call.result[g][1].level <= 1
          /\ Len(call.result[g - 1]) < 5

\* The number of paragraph and list blocks, counted block by block.
RECURSIVE ParagraphsAndLists(_)
ParagraphsAndLists(group) ==
    IF group = << >> THEN 0
    ELSE (IF Head(group).type = "paragraph" \/ Head(group).type = "list" THEN 1 ELSE 0)
         + ParagraphsAndLists(Tail(group))

\* C18: the template is title_slide for the first group; otherwise
\* image_with_caption with images and at most 2 paragraph/list blocks;
\* otherwise two_column_image_text with images; otherwise bullet_list with a
\* list block; otherwise text_heavy with more than 5 paragraph/list blocks;
\* otherwise standard_content.
C18_FirstMatchingTemplateWins ==
    (call.fn = "select_slide_template" /\ call.done) =>
        LET n == ParagraphsAndLists(call.content_group)
            with_images == call.image_list # << >>
            with_list == \E i \in DOMAIN call.content_group :
                            call.content_group[i].type = "list" IN
          /\ call.is_title => call.result = "title_slide"
          /\ (~call.is_title /\ with_images /\ n <= 2)
                => call.result = "image_with_caption"
          /\ (~call.is_title /\ with_images /\ n > 2)
                => call.result = "two_column_image_text"
          /\ (~call.is_title /\ ~with_images /\ with_list)
                => call.result = "bullet_list"
          /\ (~call.is_title /\ ~with_images /\ ~with_list /\ n > 5)
                => call.result = "text_heavy"
          /\ (~call.is_title /\ ~with_images /\ ~with_list /\ n <= 5)
                => call.result = "standard_content"

C18_Witness ==
    /\ call.fn = "select_slide_template"
    /\ call.done
    /\ call.result = "two_column_image_text"
    /\ \E i \in DOMAIN call.content_group : call.content_group[i].type = "list"

\* The elements a call generated, the blocks they were generated from, and
\* whether those blocks form the title unit.
GeneratedElements ==
    /\ call.fn \in {"create_slide_elements", "create_page_elements"}
    /\ call.done

SourceBlocks ==
    IF call.fn = "create_slide_elements" THEN call.content_group ELSE call.blocks

InTitleUnit == call.fn = "create_slide_elements" /\ call.is_title

\* C19: the hierarchy level of every generated element is 1 for a heading that
\* is the first block of the title unit, min(level + 1, 3) for every other
\* heading, 3 for a quote or a callout and 4 for every other block; its
\* similarity family is heading-N for a level N of at most 3 and
\* body-paragraph otherwise.
C19_HierarchyLevelAndFamily ==
    GeneratedElements =>
        /\ Len(call.result) = Len(SourceBlocks)
        /\ \A i \in 1..Len(call.result) :
              LET block == SourceBlocks[i]
                  rules == call.result[i].gestalt_rules
                  n == rules.hierarchy_level IN
                /\ (block.type = "heading" /\ InTitleUnit /\ i = 1) => n = 1
                /\ (block.type = "heading" /\ ~(InTitleUnit /\ i = 1))
                      => n = (IF block.level + 1 < 3 THEN block.level + 1 ELSE 3)
                /\ block.type \in {"quote", "callout"} => n = 3
                /\ block.type \in {"paragraph", "list", "table"} => n = 4
                /\ n <= 3 => rules.similarity_family = [family |-> "heading", level |-> n]
                /\ n > 3 => rules.similarity_family.family = "body-paragraph"

C19_Witness ==
    /\ call.fn = "create_slide_elements"
    /\ call.done
    /\ call.is_title
    /\ Len(call.result) = 2
    /\ call.content_group[1].type = "heading"
    /\ call.content_group[1].level = 4
    /\ call.result[1].gestalt_rules.hierarchy_level = 1
    /\ call.content_group[2].type = "heading"
    /\ call.content_group[2].level = 1
    /\ call.result[2].gestalt_rules.hierarchy_level = 2

Scored == call.fn = "calculate_design_rationale" /\ call.done

\* The sum of the six scores under the weights 0.25, 0.20, 0.15, 0.15, 0.15
\* and 0.10, in ten-thousandths.
WeightedSum(scores) ==
    25 * scores.hierarchy + 20 * scores.alignment + 15 * scores.proximity
    + 15 * scores.similarity + 15 * scores.whitespace + 10 * scores.contrast

\* C20 (as claimed): the overall score is the weighted sum of the six
\* principle scores and, with the baseline scores, about 0.8965; it is at
\* least 0.75 and below 0.90 and the grade is good.
C20_OverallIsAbout08965 ==
    Scored =>
        /\ call.result.overall = WeightedSum(call.result.scores)
        /\ call.result.overall \in 8960..8970
        /\ call.result.overall >= 7500
        /\ call.result.overall < 9000
        /\ call.result.quality_grade = "good"

\* C20 (amended): the overall score is the weighted sum of the six principle
\* scores and, with the baseline scores, 0.885; it is at least 0.75 and below
\* 0.90 and the grade is good.
C20_OverallIs0885 ==
    Scored =>
        /\ call.result.overall = WeightedSum(call.result.scores)
        /\ call.result.overall = 8850
        /\ call.result.overall >= 7500
        /\ call.result.overall < 9000
        /\ call.result.quality_grade = "good"

C20_Witness ==
    /\ Scored
    /\ call.mode = "rule_only"
    /\ call.result.quality_grade = "good"
    /\ call.result.overall_quality_score = 89

\* C21 (as claimed): a create is answered with the session its key recorded
\* only while the key's retention window is open, that is before expires_at.
C21_ExpiredKeyIsNotReplayed ==
    [][\A k \in Keys :
          (/\ k \in DOMAIN idempotency_keys
           /\ last' # last
           /\ last'.op = "create"
           /\ last'.key = k
           /\ last'.code = 201
           /\ last'.sid = idempotency_keys[k].session_id)
          => now < idempotency_keys[k].expires_at]_vars

Normalized == call.fn = "normalize_content" /\ call.done

\* C22: normalization gives a block that arrived without a role the role
\* introduction when it is a heading with sequence 0, action when it is a
\* callout, supporting otherwise; a block that arrived with a role keeps it.
C22_RoleDetectedOnlyWhenUnset ==
    Normalized =>
        LET given == call.block
            role == call.result.stored.detected_role IN
          /\ given.detected_role # NoRole => role = given.detected_role
          /\ given.detected_role = NoRole =>
                /\ (given.type = "heading" /\ given.sequence = 0) => role = "introduction"
                /\ given.type = "callout" => role = "action"
                /\ (given.type # "callout"
                    /\ ~(given.type = "heading" /\ given.sequence = 0))
                      => role = "supporting"

C22_Witness ==
    /\ Normalized
    /\ call.block.type = "heading"
    /\ call.block.sequence = 0
    /\ call.block.detected_role = "summary"
    /\ call.result.stored.detected_role = "summary"

Sized == call.fn = "calculate_hierarchy_size" /\ call.done

\* 11 * 1.333^e in millionths of a point, rounded down, by exact long
\* multiplication and division: 26.054523, 19.545779, 14.663, 11, 8.252063.
SizeInMillionths(e) ==
    CASE e = 3 -> LET square == 11 * 1333 * 1333 IN
                    (square \div 1000) * 1333 + ((square % 1000) * 1333) \div 1000
      [] e = 2 -> 11 * 1333 * 1333
      [] e = 1 -> 11 * 1333 * 1000
      [] e = 0 -> 11 * 1000000
      [] e = -1 -> (11000000 \div 1333) * 1000 + ((11000000 % 1333) * 1000) \div 1333

\* s is the integer nearest to a value whose millionths, rounded down, are m.
IsNearest(s, m) ==
    /\ (2 * s - 1) * 1000000 <= 2 * m
    /\ 2 * (m + 1) <= (2 * s + 1) * 1000000

\* C24: for the levels 1 to 5 calculate_hierarchy_size returns the integer
\* nearest to 11 * 1.333^e with e = 3, 2, 1, 0, -1 (26 for level 1, 11 for
\* level 4), and no level from 1 to 5 has a larger size than a level before it.
C24_HierarchySizeFollowsTheScale ==
    (Sized /\ call.hierarchy_level \in 1..5) =>
        /\ IsNearest(call.result, SizeInMillionths(4 - call.hierarchy_level))
        /\ call.hierarchy_level = 1 => call.result = 26
        /\ call.hierarchy_level = 4 => call.result = 11
        /\ \A earlier \in 1..5 :
              earlier < call.hierarchy_level
                 => CalculateHierarchySize(earlier) >= call.result

C24_Witness ==
    /\ Sized
    /\ call.hierarchy_level = 2
    /\ call.result = 20

Laid == call.fn = "generate_layout" /\ call.done /\ ~call.result.raised

\* The content_ref of every element of units u, u + 1, ... in reading order.
RECURSIVE ContentRefs(_, _)
ContentRefs(structure, u) ==
    IF u > Len(structure) THEN << >>
    ELSE [i \in 1..Len(structure[u].elements) |-> structure[u].elements[i].content_ref]
         \o ContentRefs(structure, u + 1)

\* C25: a generated LSP has at least one structure unit; the content_refs of
\* its elements, read unit by unit, are the block_ids of the CIP's blocks in
\* their order, each once; an empty block list gives exactly one unit without
\* elements, and otherwise no unit is without elements.
C25_ElementsMirrorBlocks ==
    Laid =>
        LET blocks == call.cip.blocks
            structure == call.result.lsp.structure IN
          /\ Len(structure) >= 1
          /\ ContentRefs(structure, 1) = [i \in 1..Len(blocks) |-> blocks[i].block_id]
          /\ blocks = << >> => Len(structure) = 1 /\ structure[1].elements = << >>
          /\ blocks # << >> => \A u \in 1..Len(structure) : structure[u].elements # << >>

C25_Witness ==
    /\ Laid
    /\ call.document_type = "powerpoint"
    /\ Len(call.cip.blocks) = 6
    /\ Len(call.result.lsp.structure) = 3

\* C26 (as claimed): a specification is stored for a proposal id, and
\* get_specification answers 200 for it, exactly when the proposal of that id
\* has status complete; a failed proposal carries an error and has no
\* specification.
C26_SpecificationIffComplete ==
    /\ \A proposal_id \in ProposalIds :
          /\ proposal_id \in DOMAIN specifications
                <=> /\ proposal_id \in DOMAIN proposals
                    /\ proposals[proposal_id].status = "complete"
          /\ (/\ proposal_id \in DOMAIN proposals
              /\ proposals[proposal_id].status = "failed")
                => /\ proposals[proposal_id].error # NoError
                   /\ proposal_id \notin DOMAIN specifications
    /\ call.fn = "get_specification" =>
          (call.code = 200
              <=> /\ call.proposal_id \in DOMAIN proposals
                  /\ proposals[call.proposal_id].status = "complete")

\* C27 (as claimed): every stored idempotency key refers to a stored session,
\* and a create that carries a stored key is answered 201 with that session.
C27_NoDanglingKey ==
    /\ \A k \in DOMAIN idempotency_keys :
          idempotency_keys[k].session_id \in DOMAIN sessions
    /\ (last.op = "create" /\ last.key \in DOMAIN idempotency_keys)
          => /\ last.code = 201
             /\ last.sid = idempotency_keys[last.key].session_id

\* C28 (as claimed): a get, a submit or a delete whose query finds no session
\* of the given id is answered 404 and leaves every table as it was.
C28_UnknownSessionIsNotFound ==
    [][(/\ last' # last
        /\ last'.op \in {"get", "submit", "delete"}
        /\ last'.seen = "missing")
       => /\ last'.code = 404
          /\ UNCHANGED db]_vars

Rendered == call.fn \in {"render_document", "render_presentation"} /\ call.done

\* C29 (as claimed): rendering an LSP posted as the engine produced it, with
\* no content_map added, writes for every element the text of the content
\* block its content_ref names; no element is skipped.
C29_EveryElementIsRendered ==
    (Rendered /\ call.lsp.content_map = << >>) =>
        /\ call.result.status = "complete"
        /\ \A i \in 1..Len(call.blocks) :
              \E j \in 1..Len(call.result.output) :
                 /\ call.result.output[j].content_ref = call.blocks[i].block_id
                 /\ call.result.output[j].text = call.blocks[i].text

\* A step that is one poll of _poll_session_ready.
Polls == workflow.pc = "poll_session_ready" /\ workflow'.polls = workflow.polls + 1

\* C30: run_workflow always returns, after at most max_attempts polls.  A poll
\* that observes layout_complete ends the polling with the proposal id, one
\* that observes failed ends it with an error at once, and when max_attempts
\* polls have observed other statuses it ends with the timeout; after either
\* error the result is failed and the state machine is not in delivered.
C30_PollingTerminates ==
    /\ <>(workflow.pc = "done")
    /\ [](workflow.polls <= MaxAttempts)
    /\ [][Polls =>
            LET observed == workflow'.observed IN
              /\ observed = "layout_complete"
                    => /\ workflow'.poll_outcome = "returned"
                       /\ workflow'.proposal_id # NULL
                       /\ workflow'.pc # "poll_session_ready"
              /\ observed = "failed"
                    => /\ workflow'.poll_outcome = "raised"
                       /\ workflow'.pc = "done"
              /\ observed \in SessionStatus \ {"layout_complete", "failed"}
                    => IF workflow'.polls = MaxAttempts
                       THEN workflow'.poll_outcome = "timed_out" /\ workflow'.pc = "done"
                       ELSE workflow'.poll_outcome = "none"
                            /\ workflow'.pc = "poll_session_ready"]_vars
    /\ [](workflow.poll_outcome \in {"raised", "timed_out"}
            => workflow.pc = "done" /\ workflow.result = "failed")
    /\ [](workflow.result = "failed" => workflow.current_state # "delivered")

C30_Witness ==
    /\ workflow.pc = "done"
    /\ workflow.poll_outcome = "timed_out"
    /\ workflow.polls = MaxAttempts
    /\ workflow.result = "failed"
    /\ workflow.current_state = "layout_queued"

====
